---- MODULE Spec2Model ----
(***************************************************************************)
(* Model of plugins/player_manager.py (StarryPy3k): the PlayerManager      *)
(* plugin, its Player records, the persistent shelf of players and the     *)
(* per-connection handshake state it maintains on the protocol objects.    *)
(***************************************************************************)
EXTENDS Integers, Sequences, FiniteSets, TLC

(* ------------------------------ bounds -------------------------------- *)

\* number of protocol (connection) objects the server has accepted
MaxConns == 2
\* number of Player objects that may be constructed in one run
MaxObjs == 3
\* number of Planet objects that may be constructed in one run
MaxPlanets == 2

(* --------------------------- basic values ----------------------------- *)

\* Python's None
None == "None"

\* "no Player object": protocol.player not (yet) assigned
NoPlayer == 0

\* protocol.state of a connection no handler has set a state on
NoState == -1

\* the protocol objects of the accepted connections
ConnIds == <<"c1", "c2", "c3", "c4">>
Conns == {ConnIds[i] : i \in 1..MaxConns}

\* bytes objects carried as uuid by the client-connect packet: the uuid
\* configured as owner and the uuid of another client
Bytes(s) == [bytes |-> s]
UUIDs == {Bytes("u1"), Bytes("u2")}

\* str(uuid) of a bytes object is its repr
str(b) == "b'" \o b.bytes \o "'"

\* uuid.decode("ascii")
decode(b) == b.bytes

\* self.config.config.owner_uuid
owner_uuid == "u1"

\* class State(IntEnum)
VERSION_SENT == 0
CLIENT_CONNECT_RECEIVED == 1
HANDSHAKE_CHALLENGE_SENT == 2
HANDSHAKE_RESPONSE_RECEIVED == 3
CONNECT_RESPONSE_SENT == 4
CONNECTED == 5
CONNECTED_WITH_HEARTBEAT == 6

\* variant: Kick declared as a subclass of Guest
RoleParent_kick_under_guest ==
  [SuperAdmin |-> "Owner", Admin |-> "SuperAdmin", Moderator |-> "Admin",
   Guest |-> "Moderator", Ban |-> "Moderator", Kick |-> "Guest"]

\* the Role subclasses declared by the module, child |-> parent
RoleParent ==
  [SuperAdmin |-> "Owner", Admin |-> "SuperAdmin", Moderator |-> "Admin",
   Guest |-> "Moderator", Ban |-> "Moderator", Kick |-> "Moderator"]

RoleNames == {"Owner"} \cup DOMAIN RoleParent

\* {x.__name__ for x in Owner.roles}: every role name of the hierarchy
OwnerRoleNames == RoleNames

\* issubclass(cls, base) over the declared classes
RECURSIVE issubclass(_, _)
issubclass(cls, base) ==
  \/ cls = base
  \/ cls \in DOMAIN RoleParent /\ issubclass(RoleParent[cls], base)

\* implies(role, target) of the role hierarchy: a name that is not a role
\* of the hierarchy implies nothing and is implied by nothing
implies(role, target) ==
  /\ role \in RoleNames
  /\ target \in RoleNames
  /\ issubclass(target, role)

\* role names a query may carry: the declared ones and one that is none
QueryNames == RoleNames \cup {"Visitor"}

\* display names clients present, and str.lower() on the strings in play
Names == {"Bob"}
LowerTable ==
  [s \in {"Bob", "bob", "BOB", "No One", "no one"} |->
     CASE s = "Bob" -> "bob"
       [] s = "BOB" -> "bob"
       [] s = "No One" -> "no one"
       [] OTHER -> s]
lower(s) == LowerTable[s]

\* " ".join(data)
RECURSIVE join(_)
join(data) ==
  IF Len(data) = 0 THEN ""
  ELSE IF Len(data) = 1 THEN data[1]
  ELSE data[1] \o " " \o join(Tail(data))

(* ------------------------------ state --------------------------------- *)

VARIABLES
  heap,      \* every Player object constructed or loaded, by object id
  players,   \* self.shelf['players']: key string -> Player object id
  protos,    \* the protocol objects: state, player, and whether still open
  shelf,     \* the shelf file: whether it is open, and the players dict
             \* pickled in it (what a fresh shelve.open would load)
  pheap,     \* every Planet object constructed, by object id
  planets,   \* self.shelf['planets']: key string -> Planet object id
  last,      \* the handler that ran last, with its arguments
  out        \* what that handler emitted: messages, kills, an exception

vars == <<heap, players, protos, shelf, pheap, planets, last, out>>

Objs == 1..Len(heap)

NoOut == [priv |-> <<>>, bcast |-> <<>>, died |-> {}, err |-> FALSE]

\* an optional roles argument: None, or an iterable of role names
NoRoles == [is_none |-> TRUE, set |-> {}]
Roles(s) == [is_none |-> FALSE, set |-> s]

\* Player.__init__
Player(uuid, name, last_seen, roles, logged_in, protocol, client_id, ip, planet, on_ship, muted) ==
  [uuid |-> uuid,
   name |-> name,
   last_seen |-> IF last_seen = None THEN "now" ELSE last_seen,
   roles |-> IF roles.is_none THEN {} ELSE roles.set,
   logged_in |-> logged_in,
   protocol |-> protocol,
   client_id |-> client_id,
   ip |-> ip,
   planet |-> planet,
   on_ship |-> on_ship,
   muted |-> muted]

(* --------------------------- initial state ---------------------------- *)

\* Records a previous run left in the shelf: deactivate() cleared protocol
\* and logged_in before closing it.  The record of uuid u1 may predate the
\* configuration of u1 as owner, so its roles are whatever was stored.
StoredRoles == {{}, {"Kick"}}
Persisted(roles) ==
  [Player(Bytes("u1"), "Bob", None, Roles(roles), FALSE, None, -1, "0.0.0.0", "",
          TRUE, FALSE) EXCEPT !.logged_in = FALSE]

\* shelf.close() (and the assignment shelf[key] = value) pickles the cached
\* players dict into the file: the Player objects become their field values
written_back(pl, hp) == [k \in DOMAIN pl |-> hp[pl[k]]]

\* What activate() leaves besides the players: the protocol objects are
\* freshly accepted connections, the file holds the players dict as loaded
Activated ==
  /\ protos = [c \in Conns |-> [state |-> NoState, player |-> NoPlayer,
                                alive |-> TRUE]]
  /\ shelf = [open |-> TRUE, stored |-> written_back(players, heap)]
  /\ pheap = <<>>
  /\ planets = <<>>
  /\ last = [op |-> "activate", conn |-> None, arg |-> None]
  /\ out = NoOut

\* activate() on a new shelf file: sync() stores the empty players dict
InitFresh ==
  /\ heap = <<>>
  /\ players = <<>>
  /\ Activated

\* activate() on a new shelf file or on the file an earlier run closed
Init ==
  /\ \/ /\ heap = <<>>
        /\ players = <<>>
     \/ \E r \in StoredRoles :
          /\ heap = <<Persisted(r)>>
          /\ players = (str(Bytes("u1")) :> 1)
  /\ Activated

(* ------------------------- handshake handlers ------------------------- *)

\* A handler that writes nothing into the shelf file and touches no planet.
\* With writeback=True, self.shelf['players'] is the cached dict: mutating
\* it or a Player in it changes the cache only, until the shelf is closed.
Ran(op, c, arg) ==
  /\ last' = [op |-> op, conn |-> c, arg |-> arg]
  /\ UNCHANGED <<shelf, pheap, planets>>

\* variant: the event is accepted only as the first one of a connection
on_protocol_version_in_order(c) ==
  /\ protos[c].alive
  /\ protos' = [protos EXCEPT ![c].state =
                  IF @ = NoState THEN VERSION_SENT ELSE @]
  /\ Ran("protocol_version", c, None)
  /\ out' = NoOut
  /\ UNCHANGED <<heap, players>>

on_protocol_version(c) ==
  /\ protos[c].alive
  /\ protos' = [protos EXCEPT ![c].state = VERSION_SENT]
  /\ Ran("protocol_version", c, None)
  /\ out' = NoOut
  /\ UNCHANGED <<heap, players>>

on_handshake_challenge(c) ==
  /\ protos[c].alive
  /\ protos' = [protos EXCEPT ![c].state = HANDSHAKE_CHALLENGE_SENT]
  /\ Ran("handshake_challenge", c, None)
  /\ out' = NoOut
  /\ UNCHANGED <<heap, players>>

on_handshake_response(c) ==
  /\ protos[c].alive
  /\ protos' = [protos EXCEPT ![c].state = HANDSHAKE_RESPONSE_RECEIVED]
  /\ Ran("handshake_response", c, None)
  /\ out' = NoOut
  /\ UNCHANGED <<heap, players>>

on_heartbeat(c) ==
  /\ protos[c].alive
  /\ protos' = [protos EXCEPT ![c].state = 6]
  /\ Ran("heartbeat", c, None)
  /\ out' = NoOut
  /\ UNCHANGED <<heap, players>>

\* response.client_id values the server hands out
ClientIds == {7}

\* variant: the success branch forgets player.protocol = protocol
connect_response_success_unbound(pl, c, client_id) ==
  [pl EXCEPT !.logged_in = TRUE, !.client_id = client_id]

\* the two branches of on_connect_response, as the Player it leaves behind
connect_response_success(pl, c, client_id) ==
  [pl EXCEPT !.logged_in = TRUE, !.client_id = client_id, !.protocol = c]

connect_response_failure(pl) ==
  [pl EXCEPT !.logged_in = FALSE, !.client_id = -1]

\* variant: the state is advanced on either branch
connect_response_state_always(old, success) == CONNECTED

\* the state on_connect_response leaves on the protocol object
connect_response_state(old, success) ==
  IF success THEN CONNECTED ELSE old

on_connect_response(c, success, client_id) ==
  /\ protos[c].alive
  /\ Ran("connect_response", c, [success |-> success, client_id |-> client_id])
  /\ LET p == protos[c].player IN
     IF p = NoPlayer
     THEN \* protocol.player.logged_in = ... raises AttributeError
          /\ out' = [NoOut EXCEPT !.err = TRUE]
          /\ UNCHANGED <<heap, players, protos>>
     ELSE /\ heap' = [heap EXCEPT ![p] =
                        IF success
                        THEN connect_response_success(heap[p], c, client_id)
                        ELSE connect_response_failure(heap[p])]
          /\ protos' = [protos EXCEPT ![c].state =
                          connect_response_state(protos[c].state, success)]
          /\ out' = NoOut
          /\ UNCHANGED players

(* ------------------------- the player store --------------------------- *)

\* variant: the presence test uses the decoded uuid, not the key of the insert
has_player_decoded(uuid) == decode(uuid) \in DOMAIN players

\* str(uuid) in self.shelf['players']
has_player(uuid) == str(uuid) \in DOMAIN players

\* variant: the stored record is marked logged in again when it is returned
existing_player_logged_in(uuid) ==
  LET p == players[str(uuid)] IN
  [heap |-> [heap EXCEPT ![p].logged_in = TRUE,
                         ![p].roles = IF decode(uuid) = owner_uuid
                                      THEN OwnerRoleNames ELSE @],
   players |-> players,
   ret |-> p,
   created |-> FALSE]

\* variant: the stored record is returned without re-applying the elevation
existing_player_as_stored(uuid) ==
  [heap |-> heap, players |-> players, ret |-> players[str(uuid)],
   created |-> FALSE]

\* the branch returning the stored record
existing_player(uuid) ==
  LET p == players[str(uuid)] IN
  [heap |-> IF decode(uuid) = owner_uuid
            THEN [heap EXCEPT ![p].roles = OwnerRoleNames]
            ELSE heap,
   players |-> players,
   ret |-> p,
   created |-> FALSE]

\* the branch constructing and inserting a new record
new_player(uuid, name, roles, logged_in) ==
  LET r == IF decode(uuid) = owner_uuid THEN Roles(OwnerRoleNames) ELSE roles
      obj == Player(uuid, name, None, r, logged_in, None, -1, "0.0.0.0", "",
                    TRUE, FALSE)
      id == Len(heap) + 1
  IN [heap |-> Append(heap, obj),
      players |-> [k \in DOMAIN players \cup {str(uuid)} |->
                     IF k = str(uuid) THEN id ELSE players[k]],
      ret |-> id,
      created |-> TRUE]

add_or_get_player(uuid, name, roles, logged_in) ==
  IF has_player(uuid)
  THEN existing_player(uuid)
  ELSE new_player(uuid, name, roles, logged_in)

\* data['parsed'] of the client-connect packet
RoleArgs == {NoRoles, Roles({"Kick"})}
Payloads == [uuid : UUIDs, name : Names, roles : RoleArgs]

\* add_or_get_player contains no yield, so "yield from" it runs to completion
\* without handing control to another connection's handler: the lookup, the
\* insert and the assignment of protocol.player are one step.
on_client_connect(c, parsed) ==
  /\ protos[c].alive
  /\ LET r == add_or_get_player(parsed.uuid, parsed.name, parsed.roles, TRUE) IN
     /\ Len(r.heap) <= MaxObjs
     /\ heap' = r.heap
     /\ players' = r.players
     /\ protos' = [protos EXCEPT ![c].player = r.ret]
     /\ Ran("client_connect", c, [parsed |-> parsed, created |-> r.created])
  /\ out' = NoOut

\* variant: the handler drops the protocol but leaves logged_in set
disconnected_still_logged_in(pl) == [pl EXCEPT !.protocol = None]

\* what either disconnect handler does to protocol.player
disconnected(pl) == [pl EXCEPT !.protocol = None, !.logged_in = FALSE]

\* The disconnect events are delivered as the transport goes away: no
\* further event reaches the protocol object, which keeps its attributes.
on_client_disconnect(c) ==
  /\ protos[c].alive
  /\ Ran("client_disconnect", c, None)
  /\ LET p == protos[c].player IN
     IF p = NoPlayer
     THEN /\ out' = [NoOut EXCEPT !.err = TRUE]
          /\ UNCHANGED heap
     ELSE /\ heap' = [heap EXCEPT ![p] = disconnected(heap[p])]
          /\ out' = NoOut
  /\ protos' = [protos EXCEPT ![c].alive = FALSE]
  /\ UNCHANGED players

on_server_disconnect(c) ==
  /\ protos[c].alive
  /\ Ran("server_disconnect", c, None)
  /\ LET p == protos[c].player IN
     IF p = NoPlayer
     THEN /\ out' = [NoOut EXCEPT !.err = TRUE]
          /\ UNCHANGED heap
     ELSE /\ heap' = [heap EXCEPT ![p] = disconnected(heap[p])]
          /\ out' = NoOut
  /\ protos' = [protos EXCEPT ![c].alive = FALSE]
  /\ UNCHANGED players

(* ------------------------------- kick --------------------------------- *)

\* variant: the name comparison is inverted
get_player_by_name_inverted(name, check_logged_in) ==
  {p \in {players[k] : k \in DOMAIN players} :
     /\ lower(heap[p].name) # lower(name)
     /\ (~check_logged_in \/ heap[p].logged_in)}

\* The players get_player_by_name may return: the loop returns the first
\* match in the iteration order of the shelf's dict, which the hash seed
\* fixes per process; the empty set stands for the implicit None.
get_player_by_name(name, check_logged_in) ==
  {p \in {players[k] : k \in DOMAIN players} :
     /\ lower(heap[p].name) = lower(name)
     /\ (~check_logged_in \/ heap[p].logged_in)}

\* the lookup kick performs
kick_lookup(name) == get_player_by_name(name, FALSE)

\* protocol.die(): the connection is terminated
die(ps, c) == [ps EXCEPT ![c].alive = FALSE]

KickData == {<<"BOB">>, <<"No", "One">>}

\* @command("kick", role=Kick): the command is dispatched only for an issuer
\* whose player holds the Kick role
may_kick(c) ==
  /\ protos[c].player # NoPlayer
  /\ "Kick" \in heap[protos[c].player].roles

kick(c, data) ==
  /\ protos[c].alive
  /\ may_kick(c)
  /\ Ran("kick", c, data)
  /\ UNCHANGED <<heap, players>>
  /\ LET name == join(data)
         found == kick_lookup(name)
     IN IF found = {}
        THEN /\ out' = [NoOut EXCEPT !.priv = <<c>>]
             /\ UNCHANGED protos
        ELSE \E p \in found :
               IF heap[p].protocol = None
               THEN \* p.protocol.die() raises AttributeError
                    /\ out' = [NoOut EXCEPT !.err = TRUE]
                    /\ UNCHANGED protos
               ELSE /\ protos' = die(protos, heap[p].protocol)
                    /\ out' = [NoOut EXCEPT
                                 !.died = {heap[p].protocol},
                                 !.bcast = <<[by |-> heap[protos[c].player].name,
                                              who |-> heap[p].name]>>]

(* ------------------------- the planet store --------------------------- *)

\* "%d" % n
Digit == <<"0", "1", "2", "3", "4", "5", "6", "7", "8", "9">>
RECURSIVE fmt_nat(_)
fmt_nat(n) ==
  IF n < 10 THEN Digit[n + 1] ELSE fmt_nat(n \div 10) \o Digit[(n % 10) + 1]
fmt_d(n) == IF n < 0 THEN "-" \o fmt_nat(0 - n) ELSE fmt_nat(n)

\* Planet.__init__
Planet(sector, location, planet, satellite) ==
  [sector |-> sector, a |-> location[1], x |-> location[2], y |-> location[3],
   planet |-> planet, satellite |-> satellite]

\* Planet.__str__
planet_str(pl) ==
  pl.sector \o ":" \o fmt_d(pl.a) \o ":" \o fmt_d(pl.x) \o ":" \o fmt_d(pl.y)
    \o ":" \o fmt_d(pl.planet) \o ":" \o fmt_d(pl.satellite)

\* variant: the key looked up leaves the satellite out
loc_string_without_satellite(sector, location, planet, satellite) ==
  sector \o ":" \o fmt_d(location[1]) \o ":" \o fmt_d(location[2]) \o ":"
    \o fmt_d(location[3]) \o ":" \o fmt_d(planet)

\* the key add_or_get_planet looks up
loc_string(sector, location, planet, satellite) ==
  sector \o ":" \o fmt_d(location[1]) \o ":" \o fmt_d(location[2]) \o ":"
    \o fmt_d(location[3]) \o ":" \o fmt_d(planet) \o ":" \o fmt_d(satellite)

\* "no Planet object"
NoPlanet == 0

\* The function contains no yield: lookup and insert are one step.  The
\* result carries the objects, the 'planets' dictionary and the object
\* returned.
add_or_get_planet(sector, location, planet, satellite) ==
  LET key == loc_string(sector, location, planet, satellite) IN
  IF key \in DOMAIN planets
  THEN [pheap |-> pheap, planets |-> planets, ret |-> planets[key],
        created |-> FALSE]
  ELSE LET obj == Planet(sector, location, planet, satellite)
           id == Len(pheap) + 1
       IN [pheap |-> Append(pheap, obj),
           planets |-> [k \in DOMAIN planets \cup {planet_str(obj)} |->
                          IF k = planet_str(obj) THEN id ELSE planets[k]],
           ret |-> id,
           created |-> TRUE]

\* planet.celestialParameters.coordinate of the world-start packet
Coordinates ==
  [sector : {"alpha"}, location : {<<0, 1, 2>>, <<-1, 12, 2>>},
   planet : {3}, satellite : {0, 4}]

\* data['parsed'].planet: celestialParameters is None or carries a coordinate
NoCelestial == [is_none |-> TRUE, coordinate |-> <<>>]
Celestial(co) == [is_none |-> FALSE, coordinate |-> co]
WorldPayloads == {NoCelestial} \cup {Celestial(co) : co \in Coordinates}

\* With coordinates the planet is looked up or created first and
\* protocol.player is read afterwards, by the log call; without them
\* protocol.player is touched first.  A protocol object no client-connect
\* has reached has no player attribute.
on_world_start(c, celestialParameters) ==
  /\ protos[c].alive
  /\ LET p == protos[c].player IN
     IF ~celestialParameters.is_none
     THEN LET co == celestialParameters.coordinate
              r == add_or_get_planet(co.sector, co.location, co.planet,
                                     co.satellite)
          IN /\ Len(r.pheap) <= MaxPlanets
             /\ pheap' = r.pheap
             /\ planets' = r.planets
             /\ last' = [op |-> "world_start", conn |-> c,
                         arg |-> [planet |-> celestialParameters,
                                  location |-> r.ret]]
             /\ out' = [NoOut EXCEPT !.err = (p = NoPlayer)]
             /\ UNCHANGED heap
     ELSE /\ last' = [op |-> "world_start", conn |-> c,
                      arg |-> [planet |-> celestialParameters,
                               location |-> NoPlanet]]
          /\ IF p = NoPlayer
             THEN /\ out' = [NoOut EXCEPT !.err = TRUE]
                  /\ UNCHANGED heap
             ELSE /\ heap' = [heap EXCEPT ![p].on_ship = TRUE]
                  /\ out' = NoOut
          /\ UNCHANGED <<pheap, planets>>
  /\ UNCHANGED <<players, protos, shelf>>

(* ----------------------------- shutdown ------------------------------- *)

\* variant: the loop drops the protocol but leaves logged_in set
deactivated_still_logged_in(pl) == [pl EXCEPT !.protocol = None]

\* what deactivate does to each Player of self.shelf['players']
deactivated(pl) == [pl EXCEPT !.protocol = None, !.logged_in = FALSE]

deactivate ==
  /\ shelf.open
  /\ heap' = [o \in Objs |->
                IF o \in {players[k] : k \in DOMAIN players}
                THEN deactivated(heap[o]) ELSE heap[o]]
  /\ shelf' = [open |-> FALSE, stored |-> written_back(players, heap')]
  /\ last' = [op |-> "deactivate", conn |-> None, arg |-> None]
  /\ out' = NoOut
  /\ UNCHANGED <<players, protos, pheap, planets>>

(* --------------------------- specification ---------------------------- *)

Next ==
  \/ \E c \in Conns, s \in BOOLEAN, i \in ClientIds : on_connect_response(c, s, i)
  \/ \E c \in Conns, d \in Payloads : on_client_connect(c, d)
  \/ \E c \in Conns : on_client_disconnect(c)
  \/ \E c \in Conns : on_server_disconnect(c)
  \/ \E c \in Conns, d \in KickData : kick(c, d)

\* one run of the plugin on a new shelf file
Spec == InitFresh /\ [][Next]_vars

\* The life of the shelf: the plugin is activated on a new file or on one
\* an earlier run left, connections come and go until the plugin is
\* deactivated, which ends the run.
NextShelf ==
  \/ /\ shelf.open
     /\ \/ \E c \in Conns, d \in Payloads : on_client_connect(c, d)
        \/ \E c \in Conns, s \in BOOLEAN, i \in ClientIds : on_connect_response(c, s, i)
        \/ \E c \in Conns : on_client_disconnect(c)
        \/ \E c \in Conns : on_server_disconnect(c)
  \/ deactivate

SpecShelf == Init /\ [][NextShelf]_vars

\* The handshake of one client, its events arriving in any order and any
\* number of times on each connection.
HandshakePayloads == {d \in Payloads : decode(d.uuid) # owner_uuid /\ d.roles.is_none}

NextHandshake ==
  \/ \E c \in Conns : on_protocol_version(c)
  \/ \E c \in Conns, d \in HandshakePayloads : on_client_connect(c, d)
  \/ \E c \in Conns : on_handshake_challenge(c)
  \/ \E c \in Conns : on_handshake_response(c)
  \/ \E c \in Conns, i \in ClientIds : on_connect_response(c, TRUE, i)
  \/ \E c \in Conns : on_heartbeat(c)

SpecHandshake == InitFresh /\ [][NextHandshake]_vars

\* Clients that have connected entering worlds.
NextWorld ==
  \/ \E c \in Conns, d \in HandshakePayloads : on_client_connect(c, d)
  \/ \E c \in Conns, w \in WorldPayloads : on_world_start(c, w)

SpecWorld == InitFresh /\ [][NextWorld]_vars

\* Queries to the role hierarchy: a query is given, then answered.
InitRoles ==
  /\ heap = <<>>
  /\ players = <<>>
  /\ protos = [c \in Conns |->
                [state |-> NoState, player |-> NoPlayer, alive |-> TRUE]]
  /\ shelf = [open |-> TRUE, stored |-> written_back(players, heap)]
  /\ pheap = <<>>
  /\ planets = <<>>
  /\ \E role \in QueryNames, target \in QueryNames :
       last = [op |-> "query", conn |-> None,
               arg |-> [role |-> role, target |-> target]]
  /\ out = NoOut

implies_query ==
  /\ last.op = "query"
  /\ last' = [op |-> "implies", conn |-> None,
              arg |-> [role |-> last.arg.role, target |-> last.arg.target,
                       result |-> implies(last.arg.role, last.arg.target)]]
  /\ UNCHANGED <<heap, players, protos, shelf, pheap, planets, out>>

NextRoles == implies_query

SpecRoles == InitRoles /\ [][NextRoles]_vars

\* Clients that come back: the same uuid presented again, under another
\* name or with other roles, on the same or on another connection.
ReconnectPayloads ==
  {d \in [uuid : UUIDs, name : {"Bob", "Rob"}, roles : RoleArgs] :
     decode(d.uuid) = owner_uuid => (d.name = "Bob" /\ d.roles.is_none)}

NextReconnect ==
  \/ \E c \in Conns, d \in ReconnectPayloads : on_client_connect(c, d)
  \/ \E c \in Conns, i \in ClientIds : on_connect_response(c, TRUE, i)
  \/ \E c \in Conns : on_client_disconnect(c)

SpecReconnect == InitFresh /\ [][NextReconnect]_vars

TypeOK ==
  /\ \A o \in Objs : heap[o].uuid \in UUIDs /\ heap[o].logged_in \in BOOLEAN
  /\ \A c \in Conns : protos[c].player \in Objs \cup {NoPlayer}

(* ------------------------------ claims -------------------------------- *)

Stored == {players[k] : k \in DOMAIN players}
WithUuid(u) == {o \in Objs : heap[o].uuid = u}

\* C1: however many add_or_get_player calls present a uuid, from whichever
\* connections, one Player object exists for that uuid, it is the one the
\* store holds, and every call has handed out that object.
C1_OneRecordPerUuid ==
  /\ \A u \in UUIDs : Cardinality(WithUuid(u)) <= 1
  /\ \A c \in Conns :
       protos[c].player # NoPlayer =>
         LET p == protos[c].player IN
           /\ str(heap[p].uuid) \in DOMAIN players
           /\ players[str(heap[p].uuid)] = p
  /\ last.op = "client_connect" =>
       /\ Cardinality(WithUuid(last.arg.parsed.uuid)) = 1
       /\ protos[last.conn].player \in WithUuid(last.arg.parsed.uuid)

\* two connections have presented the same uuid, the second call found the
\* record the first one created
C1_Witness ==
  /\ last.op = "client_connect"
  /\ ~last.arg.created
  /\ \E c \in Conns \ {last.conn} :
       /\ protos[c].player # NoPlayer
       /\ protos[c].player = protos[last.conn].player
  /\ Cardinality(Stored) = 2

\* C2: a client-connect that presents the owner uuid leaves the connection
\* with a Player whose roles are all the role names of the hierarchy, for a
\* new record and for a stored one, whatever roles were passed or stored.
C2_OwnerElevated ==
  (last.op = "client_connect" /\ decode(last.arg.parsed.uuid) = owner_uuid)
    => heap[protos[last.conn].player].roles = RoleNames

\* the owner's record existed, and the call passed roles of its own
C2_Witness ==
  /\ last.op = "client_connect"
  /\ decode(last.arg.parsed.uuid) = owner_uuid
  /\ ~last.arg.created
  /\ ~last.arg.parsed.roles.is_none
  /\ heap[protos[last.conn].player].roles = RoleNames

\* C3: after on_client_connect has created the record of a fresh uuid, the
\* Player is logged in and its protocol is the connection of the event.
C3_ConnectBindsBothWays ==
  (last.op = "client_connect" /\ last.arg.created) =>
    LET p == protos[last.conn].player IN
      /\ heap[p].logged_in
      /\ heap[p].protocol = last.conn

\* C4: a disconnect event on a connection that has a player leaves that
\* Player logged out and without protocol, its uuid, name and roles as they
\* were.
C4_DisconnectClears ==
  [][\A c \in Conns :
       ( /\ last'.op \in {"client_disconnect", "server_disconnect"}
         /\ last'.conn = c
         /\ protos[c].alive
         /\ protos[c].player # NoPlayer )
       => LET p == protos[c].player IN
            /\ ~heap'[p].logged_in
            /\ heap'[p].protocol = None
            /\ heap'[p].uuid = heap[p].uuid
            /\ heap'[p].name = heap[p].name
            /\ heap'[p].roles = heap[p].roles]_vars

\* a connected, logged-in player with roles has just been disconnected
C4_Witness ==
  /\ last.op \in {"client_disconnect", "server_disconnect"}
  /\ protos[last.conn].player # NoPlayer
  /\ ~out.err
  /\ LET p == protos[last.conn].player IN
       /\ heap[p].roles # {}
       /\ heap[p].client_id # -1
       /\ ~heap[p].logged_in
       /\ heap[p].protocol = None

\* C5: no two distinct open connections have the same Player.
C5_OneConnectionPerPlayer ==
  \A c, d \in Conns :
    (c # d /\ protos[c].alive /\ protos[d].alive
       /\ protos[c].player # NoPlayer)
    => protos[c].player # protos[d].player

\* C6: a Player is logged in only while its protocol is an open connection.
C6_LoggedInOnlyWhileBound ==
  \A p \in Objs :
    heap[p].logged_in =>
      /\ heap[p].protocol # None
      /\ protos[heap[p].protocol].alive

\* C7: a failed connect-response leaves the connection's Player logged out
\* with client_id -1 and leaves the connection's state as it was.
C7_FailedResponse ==
  [][\A c \in Conns :
       ( /\ last'.op = "connect_response"
         /\ last'.conn = c
         /\ ~last'.arg.success
         /\ protos[c].player # NoPlayer )
       => LET p == protos[c].player IN
            /\ ~heap'[p].logged_in
            /\ heap'[p].client_id = -1
            /\ protos'[c].state = protos[c].state]_vars

\* a failed response has been handled on a connection that never reached
\* CONNECTED
C7_Witness ==
  /\ last.op = "connect_response"
  /\ ~last.arg.success
  /\ ~out.err
  /\ protos[last.conn].player # NoPlayer
  /\ protos[last.conn].state = NoState
  /\ ~heap[protos[last.conn].player].logged_in

\* C8: a successful connect-response leaves the connection CONNECTED and its
\* Player logged in, pointing back at the connection, with the client_id of
\* the response.
C8_SuccessfulResponse ==
  ( /\ last.op = "connect_response"
    /\ last.arg.success
    /\ protos[last.conn].player # NoPlayer )
  => LET p == protos[last.conn].player IN
       /\ protos[last.conn].state = CONNECTED
       /\ heap[p].protocol = last.conn
       /\ heap[p].logged_in
       /\ heap[p].client_id = last.arg.client_id

\* a successful response carrying client_id 7 has been handled on a
\* connection that has a player
C8_Witness ==
  /\ last.op = "connect_response"
  /\ last.arg.success
  /\ ~out.err
  /\ protos[last.conn].state = CONNECTED
  /\ heap[protos[last.conn].player].protocol = last.conn
  /\ heap[protos[last.conn].player].client_id = 7

NoStoredMatch(name) ==
  \A o \in Stored : lower(heap[o].name) # lower(name)

\* C9: kick with a name no stored Player has sends one message to the
\* issuer and nothing else: no broadcast, no connection killed, no
\* exception, no Player and no connection changed.
C9_KickNotFound ==
  [][( /\ last'.op = "kick"
       /\ NoStoredMatch(join(last'.arg)) )
     => /\ out'.priv = <<last'.conn>>
        /\ out'.bcast = <<>>
        /\ out'.died = {}
        /\ ~out'.err
        /\ heap' = heap
        /\ players' = players
        /\ protos' = protos]_vars

\* the store holds logged-in players, none of them with the name asked for
C9_Witness ==
  /\ last.op = "kick"
  /\ NoStoredMatch(join(last.arg))
  /\ \E o \in Stored : heap[o].logged_in /\ heap[o].protocol # None
  /\ out.priv = <<last.conn>>

\* C10: kick with the name of a stored Player that is disconnected is
\* answered as not found: one message to the issuer, no broadcast, no
\* connection killed, no exception.
C10_KickDisconnected ==
  ( /\ last.op = "kick"
    /\ ~NoStoredMatch(join(last.arg))
    /\ \A o \in Stored :
         lower(heap[o].name) = lower(join(last.arg)) =>
           (~heap[o].logged_in /\ heap[o].protocol = None) )
  => /\ out.priv = <<last.conn>>
     /\ out.bcast = <<>>
     /\ out.died = {}
     /\ ~out.err

\* C16: after a client-connect event has been handled, the state of its
\* connection is CLIENT_CONNECT_RECEIVED.
C16_ClientConnectState ==
  last.op = "client_connect" =>
    protos[last.conn].state = CLIENT_CONNECT_RECEIVED

\* C17: after a disconnect event has been handled, the connection has no
\* handshake state any more.
C17_DisconnectDiscardsState ==
  last.op \in {"client_disconnect", "server_disconnect"} =>
    protos[last.conn].state = NoState

\* C20: whenever the protocol of a Player is a connection, the player of
\* that connection is this Player.
C20_BindingAgrees ==
  \A p \in Objs :
    heap[p].protocol # None => protos[heap[p].protocol].player = p

\* C11: once deactivate has run, every stored Player is logged out and
\* has no protocol, and the players the shelf file holds are those records
\* in that cleared state.
C11_ShutdownClears ==
  last.op = "deactivate" =>
    /\ ~shelf.open
    /\ \A o \in Stored : ~heap[o].logged_in /\ heap[o].protocol = None
    /\ DOMAIN shelf.stored = DOMAIN players
    /\ \A k \in DOMAIN players :
         /\ shelf.stored[k] = heap[players[k]]
         /\ ~shelf.stored[k].logged_in
         /\ shelf.stored[k].protocol = None

\* the plugin was shut down with two stored players, one of which had gone
\* through a successful connect-response on a connection still open
C11_Witness ==
  /\ last.op = "deactivate"
  /\ Cardinality(Stored) = 2
  /\ \E o \in Stored, c \in Conns :
       /\ heap[o].client_id # -1
       /\ protos[c].alive
       /\ protos[c].player = o
       /\ protos[c].state = CONNECTED

\* C12: a new record is in the shelf file as soon as the call that inserted
\* it has returned.
C12_InsertIsDurable ==
  (last.op = "client_connect" /\ last.arg.created) =>
    str(last.arg.parsed.uuid) \in DOMAIN shelf.stored

\* C19: a client-connect with a uuid that is stored and is not the owner's
\* hands out the stored Player with every field as it was: the name and
\* roles passed are ignored and logged_in is not set again.
C19_ExistingUnchanged ==
  [][\A c \in Conns :
       ( /\ last'.op = "client_connect"
         /\ last'.conn = c
         /\ ~last'.arg.created
         /\ decode(last'.arg.parsed.uuid) # owner_uuid )
       => /\ protos'[c].player = players[str(last'.arg.parsed.uuid)]
          /\ heap' = heap
          /\ players' = players]_vars

\* a stored player that had been connected and has logged out came back
\* under another name and with other roles
C19_Witness ==
  /\ last.op = "client_connect"
  /\ ~last.arg.created
  /\ decode(last.arg.parsed.uuid) # owner_uuid
  /\ LET p == protos[last.conn].player IN
       /\ heap[p].name # last.arg.parsed.name
       /\ heap[p].roles # last.arg.parsed.roles.set
       /\ heap[p].client_id # -1
       /\ ~heap[p].logged_in

\* C15: the protocol-version, handshake-challenge, handshake-response and
\* heartbeat events leave their connection in VERSION_SENT,
\* HANDSHAKE_CHALLENGE_SENT, HANDSHAKE_RESPONSE_RECEIVED and
\* CONNECTED_WITH_HEARTBEAT, whatever state it was in, and are never
\* rejected.
C15_UnconditionalStates ==
  /\ last.op = "protocol_version" =>
       protos[last.conn].state = VERSION_SENT /\ ~out.err
  /\ last.op = "handshake_challenge" =>
       protos[last.conn].state = HANDSHAKE_CHALLENGE_SENT /\ ~out.err
  /\ last.op = "handshake_response" =>
       protos[last.conn].state = HANDSHAKE_RESPONSE_RECEIVED /\ ~out.err
  /\ last.op = "heartbeat" =>
       protos[last.conn].state = CONNECTED_WITH_HEARTBEAT /\ ~out.err

\* a protocol-version event has arrived on a connection that a successful
\* connect-response had already taken to CONNECTED, and has thrown it back
C15_Witness ==
  /\ last.op = "protocol_version"
  /\ protos[last.conn].state = VERSION_SENT
  /\ protos[last.conn].player # NoPlayer
  /\ heap[protos[last.conn].player].protocol = last.conn
  /\ heap[protos[last.conn].player].logged_in

PlanetFields(co) == Planet(co.sector, co.location, co.planet, co.satellite)

\* C13: calls of add_or_get_planet with the same sector, location, planet
\* and satellite return one and the same Planet object; the store holds
\* that one record for them, under the key sector:a:x:y:planet:satellite,
\* which is the key the lookup tests.
C13_OnePlanetPerCoordinate ==
  /\ \A i, j \in 1..Len(pheap) : pheap[i] = pheap[j] => i = j
  /\ \A i \in 1..Len(pheap) :
       {k \in DOMAIN planets : planets[k] = i} = {planet_str(pheap[i])}
  /\ \A co \in Coordinates :
       loc_string(co.sector, co.location, co.planet, co.satellite)
         = planet_str(PlanetFields(co))
  /\ \A i \in 1..Len(pheap) :
       pheap[i] = Planet("alpha", <<0, 1, 2>>, 3, 4)
         => "alpha:0:1:2:3:4" \in DOMAIN planets
            /\ planets["alpha:0:1:2:3:4"] = i
  /\ (last.op = "world_start" /\ ~last.arg.planet.is_none)
       => /\ last.arg.location \in 1..Len(pheap)
          /\ pheap[last.arg.location] = PlanetFields(last.arg.planet.coordinate)

\* the planet alpha:0:1:2:3:4 is asked for while it is already stored, next
\* to another planet that differs from it in the satellite only
C13_Witness ==
  /\ last.op = "world_start"
  /\ ~last.arg.planet.is_none
  /\ last.arg.planet.coordinate
       = [sector |-> "alpha", location |-> <<0, 1, 2>>, planet |-> 3,
          satellite |-> 4]
  /\ Len(pheap) = 2
  /\ last.arg.location = 1
  /\ planets["alpha:0:1:2:3:4"] = 1
  /\ "alpha:0:1:2:3:0" \in DOMAIN planets

\* C18: a world-start event carrying celestial coordinates leaves the key of
\* the planet of those coordinates in the planet attribute of the
\* connection's Player.
C18_WorldStartRecordsPlanet ==
  (/\ last.op = "world_start"
   /\ ~last.arg.planet.is_none
   /\ protos[last.conn].player # NoPlayer)
    => heap[protos[last.conn].player].planet
         = planet_str(pheap[last.arg.location])

\* the position of each role in Owner > SuperAdmin > Admin > Moderator >
\* {Guest, Ban, Kick}
Level ==
  [Owner |-> 1, SuperAdmin |-> 2, Admin |-> 3, Moderator |-> 4,
   Guest |-> 5, Ban |-> 5, Kick |-> 5]

\* C14: implies(role, target) holds exactly when target is role or lies
\* below role in the hierarchy; Moderator implies Kick, Kick does not imply
\* Moderator, Guest implies Guest, and Guest, Ban and Kick do not imply one
\* another.
C14_Implies ==
  /\ (last.op = "implies" /\ last.arg.role \in RoleNames
        /\ last.arg.target \in RoleNames)
       => (last.arg.result
             <=> \/ last.arg.target = last.arg.role
                 \/ Level[last.arg.role] < Level[last.arg.target])
  /\ (last.op = "implies" /\ last.arg.role = "Moderator"
        /\ last.arg.target = "Kick") => last.arg.result
  /\ (last.op = "implies" /\ last.arg.role = "Kick"
        /\ last.arg.target = "Moderator") => ~last.arg.result
  /\ (last.op = "implies" /\ last.arg.role = "Guest"
        /\ last.arg.target = "Guest") => last.arg.result
  /\ (last.op = "implies" /\ last.arg.role # last.arg.target
        /\ {last.arg.role, last.arg.target} \subseteq {"Guest", "Ban", "Kick"})
       => ~last.arg.result

\* the query whether Guest implies Kick, two leaves under Moderator, has
\* been answered
C14_Witness ==
  /\ last.op = "implies"
  /\ last.arg.role = "Guest"
  /\ last.arg.target = "Kick"
  /\ ~last.arg.result

====
